---- MODULE Spec2Model ----
(***************************************************************************)
(* Model of gammapy/spectrum/observation.py: SpectrumObservation,          *)
(* SpectrumObservationList and SpectrumObservationStacker.                 *)
(*                                                                         *)
(* Numbers.  numpy float arrays are modelled with exact rational           *)
(* arithmetic extended by the IEEE special values: a value is a pair       *)
(* <<n, d>> in lowest terms with d > 0, or <<0, 0>> (NaN), <<1, 0>> (+inf), *)
(* <<-1, 0>> (-inf).  Counts are kept as integers.  A Quantity with a time *)
(* unit is a pair <<value, unit>>.                                         *)
(*                                                                         *)
(* Objects.  PHACountsSpectrum objects live in the object store `heap`     *)
(* (reference -> record); a SpectrumObservation holds references to its    *)
(* on and off vector, so that attribute assignment through a reference is  *)
(* visible to every holder of the reference.  None is <<>> for values and  *)
(* reference 0 for vectors.                                                *)
(*                                                                         *)
(* Specifications.  Spec is a run of the stacker on a list whose members   *)
(* share the energy grids; SpecLists is the same run on lists whose        *)
(* members carry other grids or share an obs_id; SpecCalls is the calls of *)
(* read, stats_in_range, total_stats and obs; SpecSetters is the           *)
(* assignments to the properties of one observation.                       *)
(***************************************************************************)
EXTENDS Integers, Sequences, FiniteSets, TLC

\* ------------------------------------------------------------------------
\* Bounds of the model
\* ------------------------------------------------------------------------
MaxObs == 2          \* longest observation list
MaxCount == 2        \* largest per-bin count drawn for the inputs
MaxLivetime == 2     \* largest livetime value drawn for the inputs

None == <<>>
NoRef == 0

\* ------------------------------------------------------------------------
\* Float arithmetic (numpy semantics: no exception on division by zero)
\* ------------------------------------------------------------------------
NaN == <<0, 0>>
Inf == <<1, 0>>

Abs(i) == IF i < 0 THEN -i ELSE i
Sign(i) == IF i < 0 THEN -1 ELSE IF i = 0 THEN 0 ELSE 1

RECURSIVE GCD(_, _)
GCD(a, b) == IF b = 0 THEN a ELSE GCD(b, a % b)

Norm(n, d) ==
    IF d = 0 THEN <<Sign(n), 0>>
    ELSE LET g == GCD(Abs(n), Abs(d))
             s == Sign(d)
         IN  <<(s * n) \div g, (s * d) \div g>>

R(i) == <<i, 1>>
IsNaN(x) == x = NaN
IsFinite(x) == x[2] # 0

RAdd(x, y) ==
    IF IsNaN(x) \/ IsNaN(y) THEN NaN
    ELSE IF x[2] = 0 /\ y[2] = 0 THEN (IF x = y THEN x ELSE NaN)
    ELSE Norm(x[1] * y[2] + y[1] * x[2], x[2] * y[2])

RMul(x, y) ==
    IF IsNaN(x) \/ IsNaN(y) THEN NaN
    ELSE Norm(x[1] * y[1], x[2] * y[2])

RDiv(x, y) ==
    IF IsNaN(x) \/ IsNaN(y) THEN NaN
    ELSE Norm(x[1] * y[2], x[2] * y[1])

\* np.nan_to_num: NaN becomes 0, an infinity becomes the largest finite
\* float of its sign (kept symbolic as <<+-2, 0>>), finite values are kept.
nan_to_num(x) ==
    IF IsNaN(x) THEN R(0)
    ELSE IF x[2] = 0 THEN <<2 * x[1], 0>>
    ELSE x

\* Quantity.to('s').value
to_s(q) == IF q[2] = "s" THEN q[1] ELSE 60 * q[1]

\* ------------------------------------------------------------------------
\* Energy grids (bin edges) shared by the observations of a list
\* ------------------------------------------------------------------------
RecoGrid == <<1, 2, 3>>
TrueGrid == <<1, 2, 3>>

energy_nbins(energy) == Len(energy) - 1

\* ------------------------------------------------------------------------
\* PHACountsSpectrum
\* ------------------------------------------------------------------------
PHACountsSpectrum(data, energy, quality) ==
    [energy |-> energy, data |-> data, quality |-> quality,
     lo_threshold |-> None, hi_threshold |-> None,
     backscal |-> None, livetime |-> None, obs_id |-> None]

\* bin k is inside [lo_threshold, hi_threshold] (edge convention); the grid
\* holds the edges in TeV, a threshold is a Quantity <<value, "TeV">>
InThresholds(energy, lo, hi, k) == energy[k] >= lo[1] /\ energy[k + 1] <= hi[1]

InSafeRange(spec, k) ==
    /\ InThresholds(spec.energy, spec.lo_threshold, spec.hi_threshold, k)
    /\ spec.quality[k] = 0

bins_in_safe_range(spec) ==
    {k \in 1..energy_nbins(spec.energy) : InSafeRange(spec, k)}

counts_in_safe_range(spec) ==
    [k \in 1..energy_nbins(spec.energy) |->
        IF InSafeRange(spec, k) THEN spec.data[k] ELSE 0]

\* backscal is [scalar |-> x] or [array |-> <<x1, ..., xn>>];
\* obs_id is [int |-> i] or [list |-> <<id1, ..., idn>>]
backscal_array(spec) ==
    IF "scalar" \in DOMAIN spec.backscal
    THEN [k \in 1..energy_nbins(spec.energy) |-> spec.backscal.scalar]
    ELSE spec.backscal.array

\* ------------------------------------------------------------------------
\* EffectiveAreaTable, EnergyDispersion
\* ------------------------------------------------------------------------
EffectiveAreaTable(energy, data) == [energy |-> energy, data |-> data]

aeff_evaluate_fill_nan(aeff) ==
    [l \in 1..energy_nbins(aeff.energy) |->
        IF IsNaN(aeff.data[l]) THEN R(0) ELSE aeff.data[l]]

\* data[l][k]: probability to reconstruct true bin l in reco bin k
EnergyDispersion(e_true, e_reco, data) ==
    [e_true |-> e_true, e_reco |-> e_reco, data |-> data]

pdf_in_safe_range(edisp, lo, hi) ==
    [l \in 1..energy_nbins(edisp.e_true) |->
        [k \in 1..energy_nbins(edisp.e_reco) |->
            IF InThresholds(edisp.e_reco, lo, hi, k)
            THEN edisp.data[l][k] ELSE R(0)]]

transpose(m, rows, cols) ==
    [c \in 1..cols |-> [r \in 1..rows |-> m[r][c]]]

\* ------------------------------------------------------------------------
\* SpectrumObservation
\* ------------------------------------------------------------------------
SpectrumObservation(on_vector, aeff, off_vector, edisp) ==
    [on_vector |-> on_vector, aeff |-> aeff,
     off_vector |-> off_vector, edisp |-> edisp]

VARIABLES
    heap,                 \* object store of the PHACountsSpectrum objects
    obs_list,             \* SpectrumObservationStacker.obs_list
    stacked_on_vector,    \* reference or NoRef
    stacked_off_vector,   \* reference or NoRef
    stacked_aeff,
    stacked_edisp,
    stacked_bkscal_on,
    stacked_bkscal_off,
    stacked_obs,
    pc,                   \* position of run()
    files,                \* the files of the directory that can be opened
    assigned,             \* the value last assigned through each property setter
    ret                   \* outcome of the last call of a method that returns

vars == <<heap, obs_list, stacked_on_vector, stacked_off_vector, stacked_aeff,
          stacked_edisp, stacked_bkscal_on, stacked_bkscal_off, stacked_obs, pc,
          files, assigned, ret>>

\* the state of the callers of SpectrumObservation and SpectrumObservationList
caller_vars == <<files, assigned, ret>>

\* the fields of the stacker
stacker_vars == <<stacked_on_vector, stacked_off_vector, stacked_aeff, stacked_edisp,
                  stacked_bkscal_on, stacked_bkscal_off, stacked_obs>>

obs_livetime(h, o) == h[o.on_vector].livetime
obs_lo_threshold(h, o) == h[o.on_vector].lo_threshold
obs_hi_threshold(h, o) == h[o.on_vector].hi_threshold
obs_obs_id(h, o) == h[o.on_vector].obs_id
obs_e_reco(h, o) == h[o.on_vector].energy
obs_e_true(o) == o.aeff.energy


\* ------------------------------------------------------------------------
\* SpectrumObservationList
\* ------------------------------------------------------------------------
RECURSIVE SumSeq(_)
SumSeq(s) == IF s = <<>> THEN 0 ELSE Head(s) + SumSeq(Tail(s))

list_obs_id(h, list) == [i \in 1..Len(list) |-> obs_obs_id(h, list[i])]

\* fault: the livetimes are summed once per distinct value
total_livetime_distinct(h, list) ==
    LET values == {to_s(obs_livetime(h, list[i])) : i \in 1..Len(list)}
        sorted == CHOOSE q \in [1..Cardinality(values) -> values] :
                      \A a, b \in DOMAIN q : a < b => q[a] < q[b]
    IN  <<SumSeq(sorted), "s">>

total_livetime(h, list) ==
    LET livetimes == [i \in 1..Len(list) |-> to_s(obs_livetime(h, list[i]))]
    IN  <<SumSeq(livetimes), "s">>

\* ------------------------------------------------------------------------
\* SpectrumObservationStacker: the computations of the stages
\* ------------------------------------------------------------------------
RECURSIVE RSumOf(_)
RSumOf(s) == IF s = <<>> THEN R(0) ELSE RAdd(Head(s), RSumOf(Tail(s)))

zeros(n) == [k \in 1..n |-> 0]
rzeros(n) == [k \in 1..n |-> R(0)]
\* numpy broadcasting: an array of length 1 is read as a constant array
at(a, k) == IF Len(a) = 1 THEN a[1] ELSE a[k]

\* `acc += a` on an array acc of length n raises ValueError unless this holds
broadcastable(a, n) == Len(a) = 1 \/ Len(a) = n

\* fault: np.logical_and in place of np.logical_or
logical_and(a, b) == [k \in DOMAIN a |-> IF a[k] # 0 /\ b[k] # 0 THEN 1 ELSE 0]

\* the result has the broadcast shape of the two arrays
logical_or(a, b) ==
    [k \in 1..(IF Len(a) > Len(b) THEN Len(a) ELSE Len(b)) |->
        IF at(a, k) # 0 \/ at(b, k) # 0 THEN 1 ELSE 0]

\* fault: the raw counts are added, unsafe bins included
RECURSIVE stack_counts_loop_all_bins(_, _)
stack_counts_loop_all_bins(specs, acc) ==
    IF specs = <<>> THEN acc
    ELSE LET spec == Head(specs)
         IN  stack_counts_loop_all_bins(Tail(specs),
                 <<[k \in DOMAIN acc[1] |-> acc[1][k] + spec.data[k]],
                   logical_or(acc[2], spec.quality)>>)

\* the loop of stack_counts_spectrum; acc is <<stacked_data, stacked_quality>>
RECURSIVE stack_counts_loop(_, _)
stack_counts_loop(specs, acc) ==
    IF specs = <<>> THEN acc
    ELSE LET spec == Head(specs)
             safe == counts_in_safe_range(spec)
         IN  stack_counts_loop(Tail(specs),
                 <<[k \in DOMAIN acc[1] |-> acc[1][k] + at(safe, k)],
                   logical_or(acc[2], spec.quality)>>)

\* stacked_data += spec.counts_in_safe_range succeeds for every spec
stack_counts_fits(counts_spectrum_list) ==
    \A i \in DOMAIN counts_spectrum_list :
        broadcastable(counts_in_safe_range(counts_spectrum_list[i]),
                      energy_nbins(counts_spectrum_list[1].energy))

\* fault: the last spectrum of the list is the template
stack_counts_spectrum_last(counts_spectrum_list) ==
    LET template == counts_spectrum_list[Len(counts_spectrum_list)]
        energy == template.energy
        res == stack_counts_loop(counts_spectrum_list,
                   <<zeros(energy_nbins(energy)), zeros(energy_nbins(energy))>>)
    IN  PHACountsSpectrum(res[1], energy, res[2])

stack_counts_spectrum(counts_spectrum_list) ==
    LET template == counts_spectrum_list[1]
        energy == template.energy
        res == stack_counts_loop(counts_spectrum_list,
                   <<zeros(energy_nbins(energy)), zeros(energy_nbins(energy))>>)
    IN  PHACountsSpectrum(res[1], energy, res[2])

\* fault: the backscal is weighted with the livetime
RECURSIVE stack_backscal_loop_livetime(_, _, _)
stack_backscal_loop_livetime(h, list, acc) ==
    IF list = <<>> THEN acc
    ELSE LET o == Head(list)
             bkscal_on_data == backscal_array(h[o.on_vector])
             bkscal_off_data == backscal_array(h[o.off_vector])
             w == to_s(obs_livetime(h, o))
         IN  stack_backscal_loop_livetime(h, Tail(list),
                 <<[k \in DOMAIN acc[1] |->
                        RAdd(acc[1][k], RMul(bkscal_on_data[k], R(w)))],
                   [k \in DOMAIN acc[2] |->
                        RAdd(acc[2][k], RMul(bkscal_off_data[k], R(w)))]>>)

\* the loop of stack_backscal; acc is <<bkscal_on, bkscal_off>>
RECURSIVE stack_backscal_loop(_, _, _)
stack_backscal_loop(h, list, acc) ==
    IF list = <<>> THEN acc
    ELSE LET o == Head(list)
             bkscal_on_data == backscal_array(h[o.on_vector])
             bkscal_off_data == backscal_array(h[o.off_vector])
             w == counts_in_safe_range(h[o.off_vector])
         IN  stack_backscal_loop(h, Tail(list),
                 <<[k \in DOMAIN acc[1] |->
                        RAdd(acc[1][k], RMul(at(bkscal_on_data, k), R(at(w, k))))],
                   [k \in DOMAIN acc[2] |->
                        RAdd(acc[2][k], RMul(at(bkscal_off_data, k), R(at(w, k))))]>>)

alpha_correction == R(-1)

\* fault: no alpha_correction where the stacked off counts are zero
stack_backscal_result_no_correction(h, list, off_data) ==
    LET nbins == energy_nbins(obs_e_reco(h, list[1]))
        acc == stack_backscal_loop(h, list, <<rzeros(nbins), rzeros(nbins)>>)
    IN  <<[k \in 1..nbins |-> RDiv(acc[1][k], R(off_data[k]))],
          [k \in 1..nbins |-> RDiv(acc[2][k], R(off_data[k]))]>>

\* fault: the backscal arrays of the first observation are used for every one
stack_backscal_result_first(h, list, off_data) ==
    LET nbins == energy_nbins(obs_e_reco(h, list[1]))
        on1 == backscal_array(h[list[1].on_vector])
        off1 == backscal_array(h[list[1].off_vector])
        w(k) == SumSeq([j \in 1..Len(list) |-> counts_in_safe_range(h[list[j].off_vector])[k]])
    IN  <<[k \in 1..nbins |-> IF off_data[k] = 0 THEN alpha_correction
                              ELSE RDiv(RMul(on1[k], R(w(k))), R(off_data[k]))],
          [k \in 1..nbins |-> IF off_data[k] = 0 THEN alpha_correction
                              ELSE RDiv(RMul(off1[k], R(w(k))), R(off_data[k]))]>>

\* <<stacked_bkscal_on, stacked_bkscal_off>>
stack_backscal_result(h, list, off_data) ==
    LET nbins == energy_nbins(obs_e_reco(h, list[1]))
        acc == stack_backscal_loop(h, list, <<rzeros(nbins), rzeros(nbins)>>)
        divided(bk) == [k \in 1..nbins |-> RDiv(bk[k], R(off_data[k]))]
        corrected(bk) == [k \in 1..nbins |->
                             IF off_data[k] = 0 THEN alpha_correction
                             ELSE divided(bk)[k]]
    IN  <<corrected(acc[1]), corrected(acc[2])>>

\* the loop of stack_aeff (and the aefft part of the loop of stack_edisp)
RECURSIVE aefft_loop(_, _, _)
aefft_loop(h, list, aefft) ==
    IF list = <<>> THEN aefft
    ELSE LET o == Head(list)
             aeff_data == aeff_evaluate_fill_nan(o.aeff)
             aefft_current == [l \in DOMAIN aeff_data |->
                                  RMul(aeff_data[l], R(to_s(obs_livetime(h, o))))]
         IN  aefft_loop(h, Tail(list),
                 [l \in DOMAIN aefft |-> RAdd(aefft[l], at(aefft_current, l))])

\* aefft += aefft_current succeeds for every observation
stack_aeff_fits(list) ==
    \A i \in DOMAIN list :
        broadcastable(aeff_evaluate_fill_nan(list[i].aeff), energy_nbins(obs_e_true(list[1])))

\* fault: plain mean of the effective areas, without the livetime weights
stack_aeff_result_unweighted(h, list) ==
    LET nbins == energy_nbins(obs_e_true(list[1]))
        data(j) == aeff_evaluate_fill_nan(list[j].aeff)
        stacked_data == [l \in 1..nbins |->
                            RDiv(RSumOf([j \in 1..Len(list) |-> data(j)[l]]), R(Len(list)))]
    IN  EffectiveAreaTable(obs_e_true(list[1]), stacked_data)

stack_aeff_result(h, list) ==
    LET nbins == energy_nbins(obs_e_true(list[1]))
        aefft == aefft_loop(h, list, rzeros(nbins))
        total == total_livetime(h, list)
        stacked_data == [l \in 1..nbins |-> RDiv(aefft[l], R(total[1]))]
    IN  EffectiveAreaTable(obs_e_true(list[1]), stacked_data)

\* the aefftedisp part of the loop of stack_edisp; aefftedisp[k][l]
RECURSIVE aefftedisp_loop(_, _, _, _, _)
aefftedisp_loop(h, list, reco_bins, true_bins, aefftedisp) ==
    IF list = <<>> THEN aefftedisp
    ELSE LET o == Head(list)
             aeff_data == aeff_evaluate_fill_nan(o.aeff)
             aefft_current == [l \in DOMAIN aeff_data |->
                                  RMul(aeff_data[l], R(to_s(obs_livetime(h, o))))]
             edisp_data == pdf_in_safe_range(o.edisp, obs_lo_threshold(h, o),
                                             obs_hi_threshold(h, o))
             edisp_t == transpose(edisp_data, energy_nbins(o.edisp.e_true),
                                  energy_nbins(o.edisp.e_reco))
         IN  aefftedisp_loop(h, Tail(list), reco_bins, true_bins,
                 [k \in 1..reco_bins |-> [l \in 1..true_bins |->
                     RAdd(aefftedisp[k][l],
                          RMul(at(at(edisp_t, k), l), at(aefft_current, l)))]])

\* aefftedisp += edisp_data.transpose() * aefft_current succeeds for every observation
stack_edisp_fits(h, list) ==
    \A i \in DOMAIN list :
        /\ broadcastable(aeff_evaluate_fill_nan(list[i].aeff), energy_nbins(list[i].edisp.e_true))
        /\ broadcastable(list[i].edisp.data, energy_nbins(obs_e_true(list[1])))
        /\ broadcastable(list[i].edisp.data[1], energy_nbins(obs_e_reco(h, list[1])))

\* fault: the result is not transposed back to [true bin][reco bin]
stack_edisp_result_no_transpose(h, list) ==
    LET reco_bins == energy_nbins(obs_e_reco(h, list[1]))
        true_bins == energy_nbins(obs_e_true(list[1]))
        aefft == aefft_loop(h, list, rzeros(true_bins))
        aefftedisp == aefftedisp_loop(h, list, reco_bins, true_bins,
                          [k \in 1..reco_bins |-> rzeros(true_bins)])
        stacked == [k \in 1..reco_bins |-> [l \in 1..true_bins |->
                       nan_to_num(RDiv(aefftedisp[k][l], aefft[l]))]]
    IN  EnergyDispersion(obs_e_true(list[1]), obs_e_reco(h, list[1]), stacked)

\* fault: np.nan_to_num is left out
stack_edisp_result_no_nan_to_num(h, list) ==
    LET reco_bins == energy_nbins(obs_e_reco(h, list[1]))
        true_bins == energy_nbins(obs_e_true(list[1]))
        aefft == aefft_loop(h, list, rzeros(true_bins))
        aefftedisp == aefftedisp_loop(h, list, reco_bins, true_bins,
                          [k \in 1..reco_bins |-> rzeros(true_bins)])
        stacked == [k \in 1..reco_bins |-> [l \in 1..true_bins |->
                       RDiv(aefftedisp[k][l], aefft[l])]]
    IN  EnergyDispersion(obs_e_true(list[1]), obs_e_reco(h, list[1]),
                         transpose(stacked, reco_bins, true_bins))

stack_edisp_result(h, list) ==
    LET reco_bins == energy_nbins(obs_e_reco(h, list[1]))
        true_bins == energy_nbins(obs_e_true(list[1]))
        aefft == aefft_loop(h, list, rzeros(true_bins))
        aefftedisp == aefftedisp_loop(h, list, reco_bins, true_bins,
                          [k \in 1..reco_bins |-> rzeros(true_bins)])
        stacked == [k \in 1..reco_bins |-> [l \in 1..true_bins |->
                       nan_to_num(RDiv(aefftedisp[k][l], aefft[l]))]]
    IN  EnergyDispersion(obs_e_true(list[1]), obs_e_reco(h, list[1]),
                         transpose(stacked, reco_bins, true_bins))


\* ------------------------------------------------------------------------
\* Input observations
\* ------------------------------------------------------------------------
\* lo_threshold, hi_threshold and quality of a vector
SafePatterns ==
    { [lo |-> <<RecoGrid[1], "TeV">>, hi |-> <<RecoGrid[3], "TeV">>, quality |-> <<0, 0>>],    \* all bins safe
      [lo |-> <<RecoGrid[2], "TeV">>, hi |-> <<RecoGrid[3], "TeV">>, quality |-> <<0, 0>>],    \* bin 1 below lo_threshold
      [lo |-> <<RecoGrid[1], "TeV">>, hi |-> <<RecoGrid[2], "TeV">>, quality |-> <<0, 0>>],    \* bin 2 above hi_threshold
      [lo |-> <<RecoGrid[1], "TeV">>, hi |-> <<RecoGrid[3], "TeV">>, quality |-> <<1, 0>>] }   \* bin 1 quality-flagged

\* the patterns drawn with the off counts and with the energy dispersions
OffSafePatterns == {sp \in SafePatterns : sp.lo[1] = RecoGrid[1] /\ sp.quality = <<0, 0>>}
EdispSafePatterns == {sp \in SafePatterns : sp.hi[1] = RecoGrid[3]}

\* counts of the two bins, each from 0 to MaxCount
CountsData == { <<c, MaxCount - c>> : c \in 0..MaxCount }

\* <<backscal of the on vector, backscal of the off vector>>
BackscalPatterns ==
    { <<[scalar |-> <<1, 10>>], [scalar |-> R(1)]>>,
      <<[array |-> <<<<1, 5>>, <<1, 2>>>>], [array |-> <<R(2), R(3)>>]>> }

AeffData == { <<R(2), R(1)>>, <<NaN, R(1)>>, <<R(0), R(2)>> }

\* data[l][k]; each row sums to 1
EdispData == { << <<R(1), R(0)>>, <<R(0), R(1)>> >>,
               << <<<<1, 2>>, <<1, 2>>>>, <<<<1, 4>>, <<3, 4>>>> >> }

Livetimes == { <<t, "s">> : t \in 1..MaxLivetime }

InputVector(data, sp, backscal, livetime) ==
    [energy |-> RecoGrid, data |-> data, quality |-> sp.quality,
     lo_threshold |-> sp.lo, hi_threshold |-> sp.hi,
     backscal |-> backscal, livetime |-> livetime, obs_id |-> None]

\* an observation by value: the vectors are records, not yet references
InputObs(on, off, sp, bs, livetime, aeff, edisp) ==
    [on |-> InputVector(on, sp, bs[1], livetime),
     off |-> InputVector(off, sp, bs[2], livetime),
     aeff |-> EffectiveAreaTable(TrueGrid, aeff),
     edisp |-> EnergyDispersion(TrueGrid, RecoGrid, edisp)]

DefaultSafe == [lo |-> <<RecoGrid[1], "TeV">>, hi |-> <<RecoGrid[3], "TeV">>, quality |-> <<0, 0>>]
DefaultCounts == <<1, 1>>
DefaultBackscal == <<[scalar |-> <<1, 10>>], [scalar |-> R(1)]>>
DefaultLivetime == <<1, "s">>
DefaultAeff == <<R(1), R(1)>>
DefaultEdisp == << <<R(1), R(0)>>, <<R(0), R(1)>> >>
DefaultObs == InputObs(DefaultCounts, DefaultCounts, DefaultSafe, DefaultBackscal,
                       DefaultLivetime, DefaultAeff, DefaultEdisp)

\* observations that differ in their on counts and safe range
OnFamily ==
    { InputObs(on, DefaultCounts, sp, DefaultBackscal, DefaultLivetime,
               DefaultAeff, DefaultEdisp) : on \in CountsData, sp \in SafePatterns }

\* observations that differ in their off counts, safe range and backscal
OffFamily ==
    { InputObs(DefaultCounts, t[1], t[2], t[3], DefaultLivetime,
               DefaultAeff, DefaultEdisp) :
          t \in CountsData \X OffSafePatterns \X BackscalPatterns }

\* observations that differ in their effective area and livetime
AeffFamily ==
    { InputObs(DefaultCounts, DefaultCounts, DefaultSafe, DefaultBackscal, lt, aeff,
               DefaultEdisp) : lt \in Livetimes, aeff \in AeffData }

\* <<livetime, effective area>>
ExposureData ==
    { <<<<1, "s">>, <<R(2), R(1)>>>>,
      <<<<MaxLivetime, "s">>, <<R(2), R(1)>>>>,
      <<<<1, "s">>, <<R(0), R(2)>>>> }

\* observations that differ in their energy dispersion, exposure and safe range
EdispFamily ==
    { InputObs(DefaultCounts, DefaultCounts, t[1], DefaultBackscal, t[2][1], t[2][2], t[3]) :
          t \in EdispSafePatterns \X ExposureData \X EdispData }

\* observations without off vector or energy dispersion, livetime in minutes or zero
OptFamily ==
    { DefaultObs,
      [DefaultObs EXCEPT !.off = None],
      [DefaultObs EXCEPT !.edisp = None],
      InputObs(DefaultCounts, DefaultCounts, DefaultSafe, DefaultBackscal,
               <<1, "min">>, DefaultAeff, DefaultEdisp),
      InputObs(DefaultCounts, DefaultCounts, DefaultSafe, DefaultBackscal,
               <<0, "s">>, DefaultAeff, DefaultEdisp) }

Families == {OnFamily, OffFamily, AeffFamily, EdispFamily, OptFamily}

\* references of the vectors of the i-th input observation
OnRef(i) == 2 * i - 1
OffRef(i) == 2 * i

InputHeap(vals) ==
    LET n == Len(vals)
        refs == {OnRef(i) : i \in 1..n}
                    \cup {OffRef(i) : i \in {j \in 1..n : vals[j].off # None}}
    IN  [r \in refs |->
            IF r % 2 = 1
            THEN [vals[(r + 1) \div 2].on EXCEPT !.obs_id = [int |-> (r + 1) \div 2]]
            ELSE [vals[r \div 2].off EXCEPT !.obs_id = [int |-> r \div 2]]]

InputList(vals) ==
    [i \in 1..Len(vals) |->
        SpectrumObservation(OnRef(i), vals[i].aeff,
                            IF vals[i].off = None THEN NoRef ELSE OffRef(i),
                            vals[i].edisp)]

\* ------------------------------------------------------------------------
\* SpectrumObservationStacker.__init__
\* ------------------------------------------------------------------------
Init ==
    \E fam \in Families : \E n \in 0..MaxObs : \E vals \in [1..n -> fam] :
        /\ heap = InputHeap(vals)
        /\ obs_list = InputList(vals)
        /\ stacked_on_vector = NoRef
        /\ stacked_off_vector = NoRef
        /\ stacked_aeff = None
        /\ stacked_edisp = None
        /\ stacked_bkscal_on = None
        /\ stacked_bkscal_off = None
        /\ stacked_obs = None
        /\ pc = "stack_on_vector"
        /\ files = {}
        /\ assigned = None
        /\ ret = None

\* ------------------------------------------------------------------------
\* run(): one action per stage, in the order of run() and stack_counts_vectors()
\* ------------------------------------------------------------------------
\* reference of a newly constructed object
\* fault: the template is returned instead of a new object
NewRef_template(h) == 1

NewRef(h) == 1 + CHOOSE r \in DOMAIN h : \A q \in DOMAIN h : q <= r

\* fault: the exception of a stage is swallowed and run() goes on to assemble
Raise_swallowed == pc' = "stack_obs"

\* an exception leaves run(); the fields keep their values
Raise == pc' = "failed"

stack_on_vector ==
    /\ pc = "stack_on_vector"
    /\ IF \/ Len(obs_list) = 0                         \* IndexError
          \/ ~stack_counts_fits([i \in 1..Len(obs_list) |-> heap[obs_list[i].on_vector]])
       THEN /\ Raise                                   \* ValueError
            /\ UNCHANGED <<heap, stacked_on_vector>>
       ELSE LET on_vector_list == [i \in 1..Len(obs_list) |-> heap[obs_list[i].on_vector]]
                r == NewRef(heap)
            IN  /\ heap' = (r :> stack_counts_spectrum(on_vector_list)) @@ heap
                /\ stacked_on_vector' = r
                /\ pc' = "stack_off_vector"
    /\ UNCHANGED <<obs_list, stacked_off_vector, stacked_aeff, stacked_edisp,
                   stacked_bkscal_on, stacked_bkscal_off, stacked_obs>>
    /\ UNCHANGED caller_vars

stack_off_vector ==
    /\ pc = "stack_off_vector"
    /\ IF \/ \E i \in 1..Len(obs_list) : obs_list[i].off_vector = NoRef   \* AttributeError
          \/ ~stack_counts_fits([i \in 1..Len(obs_list) |-> heap[obs_list[i].off_vector]])
       THEN /\ Raise                                   \* ValueError
            /\ UNCHANGED <<heap, stacked_off_vector>>
       ELSE LET off_vector_list == [i \in 1..Len(obs_list) |-> heap[obs_list[i].off_vector]]
                r == NewRef(heap)
            IN  /\ heap' = (r :> stack_counts_spectrum(off_vector_list)) @@ heap
                /\ stacked_off_vector' = r
                /\ pc' = "stack_backscal"
    /\ UNCHANGED <<obs_list, stacked_on_vector, stacked_aeff, stacked_edisp,
                   stacked_bkscal_on, stacked_bkscal_off, stacked_obs>>
    /\ UNCHANGED caller_vars

stack_backscal ==
    /\ pc = "stack_backscal"
    /\ LET res == stack_backscal_result(heap, obs_list, heap[stacked_off_vector].data)
       IN  /\ stacked_bkscal_on' = res[1]
           /\ stacked_bkscal_off' = res[2]
    /\ pc' = "setup_counts_vectors"
    /\ UNCHANGED <<heap, obs_list, stacked_on_vector, stacked_off_vector,
                   stacked_aeff, stacked_edisp, stacked_obs>>
    /\ UNCHANGED caller_vars

setup_counts_vectors ==
    /\ pc = "setup_counts_vectors"
    /\ LET total == total_livetime(heap, obs_list)
           ids == list_obs_id(heap, obs_list)
           h1 == [heap EXCEPT ![stacked_on_vector].livetime = total]
           h2 == [h1 EXCEPT ![stacked_off_vector].livetime = total]
           h3 == [h2 EXCEPT ![stacked_on_vector].backscal = [array |-> stacked_bkscal_on]]
           h4 == [h3 EXCEPT ![stacked_off_vector].backscal = [array |-> stacked_bkscal_off]]
           h5 == [h4 EXCEPT ![stacked_on_vector].obs_id = [list |-> ids]]
           h6 == [h5 EXCEPT ![stacked_off_vector].obs_id = [list |-> ids]]
       IN  heap' = h6
    /\ pc' = "stack_aeff"
    /\ UNCHANGED <<obs_list, stacked_on_vector, stacked_off_vector, stacked_aeff,
                   stacked_edisp, stacked_bkscal_on, stacked_bkscal_off, stacked_obs>>
    /\ UNCHANGED caller_vars

stack_aeff ==
    /\ pc = "stack_aeff"
    /\ IF ~stack_aeff_fits(obs_list)
       THEN /\ Raise                                   \* ValueError
            /\ UNCHANGED stacked_aeff
       ELSE /\ stacked_aeff' = stack_aeff_result(heap, obs_list)
            /\ pc' = "stack_edisp"
    /\ UNCHANGED <<heap, obs_list, stacked_on_vector, stacked_off_vector,
                   stacked_edisp, stacked_bkscal_on, stacked_bkscal_off, stacked_obs>>
    /\ UNCHANGED caller_vars

stack_edisp ==
    /\ pc = "stack_edisp"
    /\ IF \/ \E i \in 1..Len(obs_list) : obs_list[i].edisp = None     \* AttributeError
          \/ ~stack_edisp_fits(heap, obs_list)
       THEN /\ Raise                                   \* ValueError
            /\ UNCHANGED stacked_edisp
       ELSE /\ stacked_edisp' = stack_edisp_result(heap, obs_list)
            /\ pc' = "stack_obs"
    /\ UNCHANGED <<heap, obs_list, stacked_on_vector, stacked_off_vector,
                   stacked_aeff, stacked_bkscal_on, stacked_bkscal_off, stacked_obs>>
    /\ UNCHANGED caller_vars

stack_obs ==
    /\ pc = "stack_obs"
    /\ stacked_obs' = SpectrumObservation(stacked_on_vector, stacked_aeff,
                                          stacked_off_vector, stacked_edisp)
    /\ pc' = "done"
    /\ UNCHANGED <<heap, obs_list, stacked_on_vector, stacked_off_vector, stacked_aeff,
                   stacked_edisp, stacked_bkscal_on, stacked_bkscal_off>>
    /\ UNCHANGED caller_vars

Next ==
    \/ stack_on_vector
    \/ stack_off_vector
    \/ stack_backscal
    \/ setup_counts_vectors
    \/ stack_aeff
    \/ stack_edisp
    \/ stack_obs

Spec == Init /\ [][Next]_vars


\* ------------------------------------------------------------------------
\* Lists whose members differ in their energy grids, or share an obs_id
\* ------------------------------------------------------------------------
\* reco grids: the common one, one with other edges, one bin, three bins
RecoGrids == {RecoGrid, <<2, 3, 4>>, <<1, 3>>, <<1, 2, 3, 4>>}
TrueGrids == {TrueGrid, <<1, 3>>, <<1, 2, 3, 4>>}

GridVector(energy, backscal) ==
    [energy |-> energy,
     data |-> [k \in 1..energy_nbins(energy) |-> 1],
     quality |-> zeros(energy_nbins(energy)),
     lo_threshold |-> <<energy[1], "TeV">>,
     hi_threshold |-> <<energy[Len(energy)], "TeV">>,
     backscal |-> backscal, livetime |-> DefaultLivetime, obs_id |-> None]

\* an observation on the grids e_reco and e_true, every reco bin safe
GridObs(e_reco, e_true) ==
    [on |-> GridVector(e_reco, DefaultBackscal[1]),
     off |-> GridVector(e_reco, DefaultBackscal[2]),
     aeff |-> EffectiveAreaTable(e_true, [l \in 1..energy_nbins(e_true) |-> R(l)]),
     edisp |-> EnergyDispersion(e_true, e_reco,
                   [l \in 1..energy_nbins(e_true) |->
                       [k \in 1..energy_nbins(e_reco) |-> Norm(1, energy_nbins(e_reco))]])]

GridFamily == { GridObs(e_reco, e_true) : e_reco \in RecoGrids, e_true \in TrueGrids }

ObsIds == {1, 2}

\* the vectors of the i-th observation carry ids[i]
WithObsIds(h, ids) ==
    [r \in DOMAIN h |-> [h[r] EXCEPT !.obs_id = [int |-> ids[(r + 1) \div 2]]]]

\* <<heap, obs_list>> of the lists of n observations
ListInputs(n) ==
    { <<InputHeap(vals), InputList(vals)>> : vals \in [1..n -> GridFamily] }
        \cup { <<WithObsIds(InputHeap([i \in 1..n |-> DefaultObs]), ids),
                 InputList([i \in 1..n |-> DefaultObs])>> : ids \in [1..n -> ObsIds] }

InitLists ==
    \E n \in 0..MaxObs : \E input \in ListInputs(n) :
        /\ heap = input[1]
        /\ obs_list = input[2]
        /\ stacked_on_vector = NoRef
        /\ stacked_off_vector = NoRef
        /\ stacked_aeff = None
        /\ stacked_edisp = None
        /\ stacked_bkscal_on = None
        /\ stacked_bkscal_off = None
        /\ stacked_obs = None
        /\ pc = "stack_on_vector"
        /\ files = {}
        /\ assigned = None
        /\ ret = None

SpecLists == InitLists /\ [][Next]_vars

\* ------------------------------------------------------------------------
\* Calls of SpectrumObservation.read, stats_in_range, total_stats and of
\* SpectrumObservationList.obs; the outcome of a call is kept in ret as
\* [op, args, raised, value], raised being "" when the call returns
\* ------------------------------------------------------------------------
Returned(op, args, value) == [op |-> op, args |-> args, raised |-> "", value |-> value]
Raised(op, args, exception) == [op |-> op, args |-> args, raised |-> exception, value |-> None]

\* the OGIP files of one observation: PHA, and BKG, ARF, RMF named in its header
FileNames == {"pha", "bkg", "arf", "rmf"}

\* what the readers return for a file that can be opened
FileContent ==
    [pha |-> [DefaultObs.on EXCEPT !.obs_id = [int |-> 1]],
     bkg |-> [DefaultObs.off EXCEPT !.obs_id = [int |-> 1]],
     arf |-> DefaultObs.aeff,
     rmf |-> DefaultObs.edisp]

\* PHACountsSpectrum.read, EffectiveAreaTable.read, EnergyDispersion.read
CanOpen(fs, name) == name \in fs

\* fault: the RMF is read outside a try block
read_result_rmf_required(fs) ==
    IF ~CanOpen(fs, "pha") \/ ~CanOpen(fs, "rmf") \/ ~CanOpen(fs, "arf")
    THEN Raised("read", <<>>, "IOError")
    ELSE Returned("read", <<>>,
             [on_vector |-> FileContent.pha, aeff |-> FileContent.arf,
              off_vector |-> IF CanOpen(fs, "bkg") THEN FileContent.bkg ELSE None,
              edisp |-> FileContent.rmf])

\* SpectrumObservation.read with the files fs; the observation is held by value
read_result(fs) ==
    IF ~CanOpen(fs, "pha") THEN Raised("read", <<>>, "IOError")
    ELSE LET on_vector == FileContent.pha
             energy_dispersion == IF CanOpen(fs, "rmf") THEN FileContent.rmf ELSE None
             off_vector == IF CanOpen(fs, "bkg") THEN FileContent.bkg ELSE None
         IN  IF ~CanOpen(fs, "arf") THEN Raised("read", <<>>, "IOError")
             ELSE Returned("read", <<>>,
                      [on_vector |-> on_vector, aeff |-> FileContent.arf,
                       off_vector |-> off_vector, edisp |-> energy_dispersion])

\* no run of the stacker is in progress
Idle == pc = "idle"

read ==
    /\ Idle
    /\ ret' = read_result(files)
    /\ UNCHANGED <<heap, obs_list, pc, files, assigned>>
    /\ UNCHANGED stacker_vars

\* SpectrumObservation.stats(idx); idx counts the bins from 0
stats(h, o, idx) ==
    [energy_min |-> obs_e_reco(h, o)[idx + 1],
     energy_max |-> obs_e_reco(h, o)[idx + 2],
     n_on |-> h[o.on_vector].data[idx + 1],
     n_off |-> h[o.off_vector].data[idx + 1],
     a_on |-> backscal_array(h[o.on_vector])[idx + 1],
     a_off |-> backscal_array(h[o.off_vector])[idx + 1],
     obs_id |-> obs_obs_id(h, o),
     livetime |-> obs_livetime(h, o)]

\* np.arange(lo, hi): lo, lo + 1, ..., hi - 1
arange(lo, hi) == [i \in 1..(IF hi > lo THEN hi - lo ELSE 0) |-> lo + i - 1]

\* SpectrumStats.stack: the counts and the livetime are summed over the inputs
SpectrumStats_stack(stats_list) ==
    [n_on |-> SumSeq([i \in DOMAIN stats_list |-> stats_list[i].n_on]),
     n_off |-> SumSeq([i \in DOMAIN stats_list |-> stats_list[i].n_off]),
     livetime |-> <<SumSeq([i \in DOMAIN stats_list |-> to_s(stats_list[i].livetime)]), "s">>,
     obs_id |-> None, energy_min |-> None, energy_max |-> None]

\* SpectrumObservation.stats_in_range(bin_min, bin_max) of an observation with
\* off vector
stats_in_range_value(h, o, bin_min, bin_max) ==
    LET idx == arange(bin_min, bin_max)
        stats_list == [i \in DOMAIN idx |-> stats(h, o, idx[i])]
        stacked_stats == SpectrumStats_stack(stats_list)
    IN  [stacked_stats EXCEPT !.livetime = obs_livetime(h, o),
                              !.obs_id = obs_obs_id(h, o),
                              !.energy_min = obs_e_reco(h, o)[bin_min + 1],
                              !.energy_max = obs_e_reco(h, o)[bin_max + 2]]

\* stats(ii) reads self.off_vector.data: AttributeError when there is none
stats_in_range_result(op, args, h, o, bin_min, bin_max) ==
    IF o.off_vector = NoRef /\ arange(bin_min, bin_max) # <<>>
    THEN Raised(op, args, "AttributeError")
    ELSE Returned(op, args, stats_in_range_value(h, o, bin_min, bin_max))

obs_nbins(h, o) == energy_nbins(h[o.on_vector].energy)

stats_in_range ==
    /\ Idle
    /\ \E i \in 1..Len(obs_list) :
          \E bin_min, bin_max \in 0..(obs_nbins(heap, obs_list[i]) - 1) :
             /\ bin_min <= bin_max
             /\ ret' = stats_in_range_result("stats_in_range", <<i, bin_min, bin_max>>,
                                              heap, obs_list[i], bin_min, bin_max)
    /\ UNCHANGED <<heap, obs_list, pc, files, assigned>>
    /\ UNCHANGED stacker_vars

total_stats ==
    /\ Idle
    /\ \E i \in 1..Len(obs_list) :
          ret' = stats_in_range_result("total_stats", <<i>>, heap, obs_list[i],
                                       0, obs_nbins(heap, obs_list[i]) - 1)
    /\ UNCHANGED <<heap, obs_list, pc, files, assigned>>
    /\ UNCHANGED stacker_vars

\* fault: the position of the last match
index_last(list, x) ==
    CHOOSE i \in DOMAIN list : list[i] = x /\ \A j \in DOMAIN list : list[j] = x => j <= i

\* list.index(x) of a list that holds x: the position of the first match
index(list, x) ==
    CHOOSE i \in DOMAIN list : list[i] = x /\ \A j \in 1..(i - 1) : list[j] # x

\* SpectrumObservationList.obs(obs_id); list.index raises ValueError when the
\* list does not hold the value
obs_result(h, list, obs_id) ==
    LET obs_id_list == list_obs_id(h, list)
    IN  IF \A i \in DOMAIN obs_id_list : obs_id_list[i] # obs_id
        THEN Raised("obs", <<obs_id>>, "ValueError")
        ELSE Returned("obs", <<obs_id>>, list[index(obs_id_list, obs_id)])

\* the ids looked up: those of ObsIds and one that no observation carries
LookupIds == { [int |-> i] : i \in ObsIds \cup {3} }

obs ==
    /\ Idle
    /\ \E obs_id \in LookupIds : ret' = obs_result(heap, obs_list, obs_id)
    /\ UNCHANGED <<heap, obs_list, pc, files, assigned>>
    /\ UNCHANGED stacker_vars

\* observations of the callers: they differ in their on counts, one has no off vector
CallFamily ==
    { InputObs(on, DefaultCounts, DefaultSafe, DefaultBackscal, DefaultLivetime,
               DefaultAeff, DefaultEdisp) : on \in CountsData }
        \cup { [DefaultObs EXCEPT !.off = None] }

\* <<heap, obs_list>> of the lists of n observations with ids drawn from ObsIds
CallInputs(n) ==
    { <<WithObsIds(InputHeap(t[1]), t[2]), InputList(t[1])>> :
          t \in [1..n -> CallFamily] \X [1..n -> ObsIds] }

\* either a directory with some of the files and no list, or a list and all files
InitCalls ==
    /\ \/ \E fs \in SUBSET FileNames :
             /\ files = fs
             /\ heap = InputHeap(<<>>)
             /\ obs_list = InputList(<<>>)
       \/ \E n \in 1..MaxObs : \E input \in CallInputs(n) :
             /\ files = FileNames
             /\ heap = input[1]
             /\ obs_list = input[2]
    /\ stacked_on_vector = NoRef
    /\ stacked_off_vector = NoRef
    /\ stacked_aeff = None
    /\ stacked_edisp = None
    /\ stacked_bkscal_on = None
    /\ stacked_bkscal_off = None
    /\ stacked_obs = None
    /\ pc = "idle"
    /\ assigned = None
    /\ ret = None

NextCalls ==
    \/ read
    \/ stats_in_range
    \/ total_stats
    \/ obs

SpecCalls == InitCalls /\ [][NextCalls]_vars

\* ------------------------------------------------------------------------
\* Assignments to the properties obs_id, lo_threshold, hi_threshold of a
\* SpectrumObservation
\* ------------------------------------------------------------------------
obs_id_setter(h, o, obs_id) ==
    LET h1 == [h EXCEPT ![o.on_vector].obs_id = obs_id]
    IN  IF o.off_vector # NoRef
        THEN [h1 EXCEPT ![o.off_vector].obs_id = obs_id]
        ELSE h1

\* fault: the threshold is assigned to the on vector only
lo_threshold_setter_on_only(h, o, threshold) ==
    [h EXCEPT ![o.on_vector].lo_threshold = threshold]

lo_threshold_setter(h, o, threshold) ==
    LET h1 == [h EXCEPT ![o.on_vector].lo_threshold = threshold]
    IN  IF o.off_vector # NoRef
        THEN [h1 EXCEPT ![o.off_vector].lo_threshold = threshold]
        ELSE h1

hi_threshold_setter(h, o, threshold) ==
    LET h1 == [h EXCEPT ![o.on_vector].hi_threshold = threshold]
    IN  IF o.off_vector # NoRef
        THEN [h1 EXCEPT ![o.off_vector].hi_threshold = threshold]
        ELSE h1

\* the values the callers assign
SetterIds == { [int |-> i] : i \in {1, 2, 3} }
SetterLoThresholds == { <<RecoGrid[1], "TeV">>, <<RecoGrid[2], "TeV">> }
SetterHiThresholds == { <<RecoGrid[2], "TeV">>, <<RecoGrid[3], "TeV">> }

set_obs_id ==
    /\ Idle
    /\ \E i \in 1..Len(obs_list) : \E obs_id \in SetterIds :
          /\ heap' = obs_id_setter(heap, obs_list[i], obs_id)
          /\ assigned' = [assigned EXCEPT ![i].obs_id = obs_id]
          /\ ret' = Returned("set_obs_id", <<i, obs_id>>, None)
    /\ UNCHANGED <<obs_list, pc, files>>
    /\ UNCHANGED stacker_vars

set_lo_threshold ==
    /\ Idle
    /\ \E i \in 1..Len(obs_list) : \E threshold \in SetterLoThresholds :
          /\ heap' = lo_threshold_setter(heap, obs_list[i], threshold)
          /\ assigned' = [assigned EXCEPT ![i].lo_threshold = threshold]
          /\ ret' = Returned("set_lo_threshold", <<i, threshold>>, None)
    /\ UNCHANGED <<obs_list, pc, files>>
    /\ UNCHANGED stacker_vars

set_hi_threshold ==
    /\ Idle
    /\ \E i \in 1..Len(obs_list) : \E threshold \in SetterHiThresholds :
          /\ heap' = hi_threshold_setter(heap, obs_list[i], threshold)
          /\ assigned' = [assigned EXCEPT ![i].hi_threshold = threshold]
          /\ ret' = Returned("set_hi_threshold", <<i, threshold>>, None)
    /\ UNCHANGED <<obs_list, pc, files>>
    /\ UNCHANGED stacker_vars

\* an off vector constructed with other metadata than the on vector
OtherOff ==
    [DefaultObs.off EXCEPT !.lo_threshold = <<RecoGrid[2], "TeV">>,
                           !.hi_threshold = <<RecoGrid[2], "TeV">>]

\* one observation: on and off vector alike, off vector with other thresholds
\* and obs_id, no off vector
SetterInputs ==
    { <<WithObsIds(InputHeap(<<DefaultObs>>), <<1>>), InputList(<<DefaultObs>>)>>,
      <<[WithObsIds(InputHeap(<<DefaultObs>>), <<1>>) EXCEPT
             ![OffRef(1)] = [OtherOff EXCEPT !.obs_id = [int |-> 2]]],
        InputList(<<DefaultObs>>)>>,
      <<WithObsIds(InputHeap(<<[DefaultObs EXCEPT !.off = None]>>), <<1>>),
        InputList(<<[DefaultObs EXCEPT !.off = None]>>)>> }

InitSetters ==
    /\ \E input \in SetterInputs :
          /\ heap = input[1]
          /\ obs_list = input[2]
    /\ stacked_on_vector = NoRef
    /\ stacked_off_vector = NoRef
    /\ stacked_aeff = None
    /\ stacked_edisp = None
    /\ stacked_bkscal_on = None
    /\ stacked_bkscal_off = None
    /\ stacked_obs = None
    /\ pc = "idle"
    /\ files = {}
    /\ assigned = [i \in 1..Len(obs_list) |->
                      [obs_id |-> None, lo_threshold |-> None, hi_threshold |-> None]]
    /\ ret = None

NextSetters ==
    \/ set_obs_id
    \/ set_lo_threshold
    \/ set_hi_threshold

SpecSetters == InitSetters /\ [][NextSetters]_vars

\* ------------------------------------------------------------------------
\* Vocabulary of the properties
\* ------------------------------------------------------------------------
NObs == Len(obs_list)
OnVector(j) == heap[obs_list[j].on_vector]
OffVector(j) == heap[obs_list[j].off_vector]
RecoBins == 1..energy_nbins(RecoGrid)
TrueBins == 1..energy_nbins(TrueGrid)
Done == pc = "done"

\* x = num / den for a rational num, an integer den # 0
IsQuotient(x, num, den) == x[2] # 0 /\ x[1] * num[2] * den = num[1] * x[2]

SafeOn(j, k) == InSafeRange(OnVector(j), k)
SafeOff(j, k) == InSafeRange(OffVector(j), k)
OffInSafeRange(j, k) == IF SafeOff(j, k) THEN OffVector(j).data[k] ELSE 0
Livetime(j) == to_s(OnVector(j).livetime)
AeffFilled(j, l) == IF IsNaN(obs_list[j].aeff.data[l]) THEN R(0) ELSE obs_list[j].aeff.data[l]

\* C1: the stacked on-counts (off-counts) at reco bin k are the sum over the
\* observations j of the on-counts (off-counts) of j at k where k is in j's
\* safe range, and 0 from j otherwise.
C1_StackedCounts ==
    /\ stacked_on_vector # NoRef =>
         \A k \in RecoBins :
            heap[stacked_on_vector].data[k] =
               SumSeq([j \in 1..NObs |-> IF SafeOn(j, k) THEN OnVector(j).data[k] ELSE 0])
    /\ stacked_off_vector # NoRef =>
         \A k \in RecoBins :
            heap[stacked_off_vector].data[k] =
               SumSeq([j \in 1..NObs |-> OffInSafeRange(j, k)])

\* a bin that observation 1 marks unsafe and observation 2 safe, both with counts
C1_Witness ==
    /\ Done /\ NObs = 2
    /\ \E k \in RecoBins :
          /\ ~SafeOn(1, k) /\ SafeOn(2, k)
          /\ OnVector(1).data[k] > 0 /\ OnVector(2).data[k] > 0
          /\ heap[stacked_on_vector].data[k] = OnVector(2).data[k]

\* C2: where the stacked off-counts are non-zero, the stacked backscal of the
\* on (off) vector is the mean of the observations' on (off) backscal weighted
\* by their off-counts in the safe range.
C2_BackscalWeighted ==
    stacked_bkscal_on # None =>
       \A k \in RecoBins :
          heap[stacked_off_vector].data[k] # 0 =>
             LET w == SumSeq([j \in 1..NObs |-> OffInSafeRange(j, k)])
                 on == RSumOf([j \in 1..NObs |->
                          RMul(backscal_array(OnVector(j))[k], R(OffInSafeRange(j, k)))])
                 off == RSumOf([j \in 1..NObs |->
                          RMul(backscal_array(OffVector(j))[k], R(OffInSafeRange(j, k)))])
             IN  /\ w # 0
                 /\ IsQuotient(stacked_bkscal_on[k], on, w)
                 /\ IsQuotient(stacked_bkscal_off[k], off, w)

\* two observations with different backscal and different non-zero weights
C2_Witness ==
    /\ Done /\ NObs = 2
    /\ \E k \in RecoBins :
          /\ OffInSafeRange(1, k) > 0 /\ OffInSafeRange(2, k) > OffInSafeRange(1, k)
          /\ backscal_array(OnVector(1))[k] # backscal_array(OnVector(2))[k]

\* C3: where the stacked off-counts are zero, the stacked backscal of the on
\* and of the off vector are both -1, and the zero denominator raises nothing.
C3_BackscalSentinel ==
    /\ stacked_bkscal_on # None =>
          \A k \in RecoBins :
             heap[stacked_off_vector].data[k] = 0 =>
                stacked_bkscal_on[k] = R(-1) /\ stacked_bkscal_off[k] = R(-1)
    /\ pc \in {"stack_aeff", "stack_edisp", "stack_obs", "done"} =>
          \A k \in RecoBins :
             heap[stacked_off_vector].data[k] = 0 =>
                /\ heap[stacked_on_vector].backscal.array[k] = R(-1)
                /\ heap[stacked_off_vector].backscal.array[k] = R(-1)
    /\ pc = "failed" =>
          \/ NObs = 0
          \/ \E j \in 1..NObs : obs_list[j].off_vector = NoRef \/ obs_list[j].edisp = None

\* a finished run with a bin without stacked off-counts
C3_Witness ==
    /\ Done
    /\ \E k \in RecoBins :
          /\ heap[stacked_off_vector].data[k] = 0
          /\ heap[stacked_on_vector].backscal.array[k] = R(-1)

\* C4: the stacked effective area at true bin l is the livetime-weighted mean
\* of the observations' effective areas, a NaN entry counting as 0 in the
\* numerator while its livetime counts in the denominator.
C4_AeffWeighted ==
    (stacked_aeff # None /\ SumSeq([j \in 1..NObs |-> Livetime(j)]) > 0) =>
       \A l \in TrueBins :
          IsQuotient(stacked_aeff.data[l],
                     RSumOf([j \in 1..NObs |-> RMul(AeffFilled(j, l), R(Livetime(j)))]),
                     SumSeq([j \in 1..NObs |-> Livetime(j)]))

\* a NaN entry next to a number, with different livetimes
C4_Witness ==
    /\ Done /\ NObs = 2
    /\ Livetime(1) # Livetime(2)
    /\ \E l \in TrueBins :
          /\ IsNaN(obs_list[1].aeff.data[l])
          /\ ~IsNaN(obs_list[2].aeff.data[l]) /\ obs_list[2].aeff.data[l] # R(0)
          /\ stacked_aeff.data[l] # R(0)


\* x = num / den for rationals num and den # 0
IsRatio(x, num, den) == x[2] # 0 /\ x[1] * num[2] * den[1] = num[1] * den[2] * x[2]

EdispExposure(l) == RSumOf([j \in 1..NObs |-> RMul(AeffFilled(j, l), R(Livetime(j)))])

\* C5: the stacked energy dispersion at (k, l) is the sum over j of
\* edisp[j][k][l] * aeff[j][l] * livetime[j] * safe[j][k], divided by the sum
\* over j of aeff[j][l] * livetime[j], where safe[j][k] tells whether k is in
\* the safe range of j (inside the thresholds and not quality-flagged); an
\* entry with a zero denominator is 0.
C5_EdispSafeRange ==
    stacked_edisp # None =>
       \A k \in RecoBins : \A l \in TrueBins :
          LET num == RSumOf([j \in 1..NObs |->
                        IF SafeOn(j, k)
                        THEN RMul(obs_list[j].edisp.data[l][k],
                                  RMul(AeffFilled(j, l), R(Livetime(j))))
                        ELSE R(0)])
              den == EdispExposure(l)
          IN  IF den = R(0) THEN stacked_edisp.data[l][k] = R(0)
              ELSE IsRatio(stacked_edisp.data[l][k], num, den)

SingleReproduced ==
    /\ \A k \in RecoBins :
          /\ heap[stacked_on_vector].data[k] = OnVector(1).data[k]
          /\ heap[stacked_off_vector].data[k] = OffVector(1).data[k]
          /\ heap[stacked_on_vector].backscal.array[k] = backscal_array(OnVector(1))[k]
          /\ heap[stacked_off_vector].backscal.array[k] = backscal_array(OffVector(1))[k]
    /\ \A l \in TrueBins :
          /\ stacked_aeff.data[l] = obs_list[1].aeff.data[l]
          /\ \A k \in RecoBins :
                stacked_edisp.data[l][k] = obs_list[1].edisp.data[l][k]

\* C6 as stated: stacking a list of one observation reproduces the counts,
\* backscal, effective area and energy dispersion of that observation entry by
\* entry, whatever its safe range and off counts.
C6_SingleAlwaysReproduced == (Done /\ NObs = 1) => SingleReproduced

FullySafe(j) ==
    /\ \A k \in RecoBins : SafeOn(j, k) /\ SafeOff(j, k) /\ OffVector(j).data[k] # 0
    /\ \A l \in TrueBins : IsFinite(obs_list[j].aeff.data[l]) /\ obs_list[j].aeff.data[l] # R(0)
    /\ Livetime(j) > 0

\* C6 (amended): stacking a list of one observation reproduces that
\* observation entry by entry when all its reco bins are in the safe range,
\* its off counts are non-zero in every bin, its effective area is a non-zero
\* number in every true bin and its livetime is positive.
C6_SingleReproduced == (Done /\ NObs = 1 /\ FullySafe(1)) => SingleReproduced

\* a finished run on one fully safe observation with a non-symmetric edisp
C6_Witness ==
    /\ Done /\ NObs = 1 /\ FullySafe(1)
    /\ obs_list[1].edisp.data[1][2] # obs_list[1].edisp.data[2][1]
    /\ stacked_obs.edisp.data = obs_list[1].edisp.data

\* the permutations of 1..n other than the identity
ListPermutations(n) ==
    {p \in [1..n -> 1..n] :
        /\ \A a, b \in 1..n : a # b => p[a] # p[b]
        /\ \E a \in 1..n : p[a] # a}
Permuted(p) == [i \in 1..NObs |-> obs_list[p[i]]]

InputObjectsKept ==
    /\ obs_list' = obs_list
    /\ \A j \in 1..NObs :
          /\ heap'[obs_list[j].on_vector] = heap[obs_list[j].on_vector]
          /\ obs_list[j].off_vector # NoRef =>
                heap'[obs_list[j].off_vector] = heap[obs_list[j].off_vector]
          /\ stacked_on_vector' # NoRef =>
                stacked_on_vector' \notin {obs_list[j].on_vector, obs_list[j].off_vector}
          /\ stacked_off_vector' # NoRef =>
                stacked_off_vector' \notin {obs_list[j].on_vector, obs_list[j].off_vector}

\* C8: no stage changes an input observation: the list, and the counts,
\* backscal, quality, thresholds, livetime and obs_id of every input on and off
\* vector stay as they are, and the stacked vectors are objects of their own.
C8_InputsNotMutated == [][InputObjectsKept]_vars

\* setup_counts_vectors has written the attributes of the stacked vectors,
\* which differ from those of the inputs
C8_Witness ==
    /\ Done /\ NObs = 2
    /\ heap[stacked_on_vector].livetime # OnVector(1).livetime
    /\ heap[stacked_on_vector].obs_id = [list |-> <<[int |-> 1], [int |-> 2]>>]
    /\ OnVector(1).obs_id = [int |-> 1]

AllLivetimesPositive == \A j \in 1..NObs : Livetime(j) > 0

\* C9: when all livetimes are positive, no entry of the stacked effective area
\* and no entry of the stacked energy dispersion is NaN.
C9_NoNaN ==
    AllLivetimesPositive =>
       /\ stacked_aeff # None => \A l \in TrueBins : ~IsNaN(stacked_aeff.data[l])
       /\ stacked_edisp # None =>
             \A l \in TrueBins : \A k \in RecoBins : ~IsNaN(stacked_edisp.data[l][k])

\* a true bin with a NaN entry and without any exposure
C9_Witness ==
    /\ Done /\ AllLivetimesPositive
    /\ \E l \in TrueBins :
          /\ \E j \in 1..NObs : IsNaN(obs_list[j].aeff.data[l])
          /\ EdispExposure(l) = R(0)
          /\ stacked_edisp.data[l][1] = R(0)

\* C10: the livetime of the stacked on vector, of the stacked off vector and
\* of the stacked observation is the sum of the livetimes of the members of
\* the list, each occurrence counted.
C10_LivetimeSum ==
    LET total == <<SumSeq([j \in 1..NObs |-> Livetime(j)]), "s">>
    IN  /\ pc \in {"stack_aeff", "stack_edisp", "stack_obs", "done"} =>
              /\ heap[stacked_on_vector].livetime = total
              /\ heap[stacked_off_vector].livetime = total
        /\ Done => obs_livetime(heap, stacked_obs) = total

\* two members with the same livetime
C10_Witness ==
    /\ Done /\ NObs = 2
    /\ Livetime(1) = Livetime(2) /\ Livetime(1) > 0
    /\ obs_livetime(heap, stacked_obs) = <<2 * Livetime(1), "s">>

\* C11: for every reco bin k, the quality flag of the stacked on vector (off
\* vector) at k is set exactly when the on vector (off vector) of at least one
\* observation of the list flags k.
C11_QualityOr ==
    /\ stacked_on_vector # NoRef =>
          \A k \in RecoBins :
             (heap[stacked_on_vector].quality[k] # 0)
                <=> (\E j \in 1..NObs : OnVector(j).quality[k] # 0)
    /\ stacked_off_vector # NoRef =>
          \A k \in RecoBins :
             (heap[stacked_off_vector].quality[k] # 0)
                <=> (\E j \in 1..NObs : OffVector(j).quality[k] # 0)

\* a bin flagged by the second observation only, next to a bin nobody flags
C11_Witness ==
    /\ Done /\ NObs = 2
    /\ \E k, m \in RecoBins :
          /\ OnVector(1).quality[k] = 0 /\ OnVector(2).quality[k] # 0
          /\ OffVector(1).quality[k] = 0 /\ OffVector(2).quality[k] # 0
          /\ heap[stacked_on_vector].quality[k] # 0
          /\ heap[stacked_off_vector].quality[k] # 0
          /\ heap[stacked_on_vector].quality[m] = 0
          /\ heap[stacked_off_vector].quality[m] = 0

OnFirstRecoGrid(spec) ==
    LET e_reco == obs_e_reco(heap, obs_list[1])
    IN  /\ spec.energy = e_reco
        /\ Len(spec.data) = energy_nbins(e_reco)
        /\ Len(spec.quality) = energy_nbins(e_reco)
        /\ spec.backscal # None => Len(spec.backscal.array) = energy_nbins(e_reco)

\* C12: whenever a stage has set its result, the stacked on vector, off
\* vector, backscal, effective area and energy dispersion are defined on the
\* reco and true energy grids of the first observation of the list, their
\* arrays having that observation's numbers of bins, whatever grids the other
\* observations carry.
C12_FirstGrids ==
    LET e_reco == obs_e_reco(heap, obs_list[1])
        e_true == obs_e_true(obs_list[1])
    IN  /\ stacked_on_vector # NoRef => OnFirstRecoGrid(heap[stacked_on_vector])
        /\ stacked_off_vector # NoRef => OnFirstRecoGrid(heap[stacked_off_vector])
        /\ stacked_bkscal_on # None =>
              /\ Len(stacked_bkscal_on) = energy_nbins(e_reco)
              /\ Len(stacked_bkscal_off) = energy_nbins(e_reco)
        /\ stacked_aeff # None =>
              /\ stacked_aeff.energy = e_true
              /\ Len(stacked_aeff.data) = energy_nbins(e_true)
        /\ stacked_edisp # None =>
              /\ stacked_edisp.e_true = e_true
              /\ stacked_edisp.e_reco = e_reco
              /\ Len(stacked_edisp.data) = energy_nbins(e_true)
              /\ \A l \in 1..energy_nbins(e_true) :
                    Len(stacked_edisp.data[l]) = energy_nbins(e_reco)

\* a finished run on two observations, the second with other reco and true
\* grids and other numbers of bins than the first
C12_Witness ==
    /\ Done /\ NObs = 2
    /\ OnVector(2).energy # OnVector(1).energy
    /\ Len(OnVector(2).data) # Len(OnVector(1).data)
    /\ obs_list[2].aeff.energy # obs_list[1].aeff.energy
    /\ Len(obs_list[2].aeff.data) # Len(obs_list[1].aeff.data)
    /\ heap[stacked_obs.on_vector].energy = OnVector(1).energy
    /\ stacked_obs.aeff.energy = obs_list[1].aeff.energy

ReadOutcome == ret # None /\ ret.op = "read"

\* C13 as stated: when the background file, the ARF or the RMF cannot be
\* opened, read raises no exception and returns an observation whose
\* corresponding field is None, the other fields being loaded.
C13_ReadNeverRaises ==
    (ReadOutcome /\ CanOpen(files, "pha")) =>
       /\ ret.raised = ""
       /\ ret.value.on_vector = FileContent.pha
       /\ ret.value.off_vector = (IF CanOpen(files, "bkg") THEN FileContent.bkg ELSE None)
       /\ ret.value.aeff = (IF CanOpen(files, "arf") THEN FileContent.arf ELSE None)
       /\ ret.value.edisp = (IF CanOpen(files, "rmf") THEN FileContent.rmf ELSE None)

\* C13 (amended): when the PHA file and the ARF can be opened, read raises no
\* exception and returns an observation whose off_vector (edisp) is None when
\* the background file (the RMF) cannot be opened, the other fields being
\* loaded; when the ARF cannot be opened, read raises IOError and returns
\* no observation.
C13_ReadDegrades ==
    ReadOutcome =>
       IF CanOpen(files, "pha") /\ CanOpen(files, "arf")
       THEN /\ ret.raised = ""
            /\ ret.value.on_vector = FileContent.pha
            /\ ret.value.aeff = FileContent.arf
            /\ ret.value.off_vector = (IF CanOpen(files, "bkg") THEN FileContent.bkg ELSE None)
            /\ ret.value.edisp = (IF CanOpen(files, "rmf") THEN FileContent.rmf ELSE None)
       ELSE ret.raised = "IOError" /\ ret.value = None

\* read has returned from a directory without background file and without RMF
C13_Witness ==
    /\ ReadOutcome
    /\ files = {"pha", "arf"}
    /\ ret.raised = ""
    /\ ret.value.off_vector = None /\ ret.value.edisp = None
    /\ ret.value.aeff = FileContent.arf

\* the observation a stats call was made on
StatsObs == obs_list[ret.args[1]]
BinsFrom(bin_min, bin_max) == [i \in 1..(bin_max - bin_min + 1) |-> bin_min + i]

\* n_on, n_off and the energy range of the bins bin_min..bin_max, both included
StatsOfBins(value, o, bin_min, bin_max) ==
    /\ value.n_on = SumSeq([i \in 1..(bin_max - bin_min + 1) |->
                               heap[o.on_vector].data[BinsFrom(bin_min, bin_max)[i]]])
    /\ value.n_off = SumSeq([i \in 1..(bin_max - bin_min + 1) |->
                                heap[o.off_vector].data[BinsFrom(bin_min, bin_max)[i]]])
    /\ value.energy_min = obs_e_reco(heap, o)[bin_min + 1]
    /\ value.energy_max = obs_e_reco(heap, o)[bin_max + 2]

\* C14: stats_in_range(bin_min, bin_max) combines the stats of every bin from
\* bin_min to bin_max inclusive: n_on and n_off are the sums over exactly
\* those bins, energy_min is the lower edge of bin_min and energy_max the
\* upper edge of bin_max; total_stats counts the on and off events of all bins.
C14_StatsInclusive ==
    /\ (ret # None /\ ret.op = "stats_in_range" /\ StatsObs.off_vector # NoRef) =>
          /\ ret.raised = ""
          /\ StatsOfBins(ret.value, StatsObs, ret.args[2], ret.args[3])
    /\ (ret # None /\ ret.op = "total_stats" /\ StatsObs.off_vector # NoRef) =>
          /\ ret.raised = ""
          /\ StatsOfBins(ret.value, StatsObs, 0, obs_nbins(heap, StatsObs) - 1)

\* C15: after any sequence of assignments to obs_id, lo_threshold and
\* hi_threshold through an observation, each value last assigned is held by the
\* on vector, by the off vector when there is one, and returned by the getter
\* of the observation; no assignment raises, with or without off vector.
C15_SettersSynchronised ==
    assigned # None =>
       /\ ret # None => ret.raised = ""
       /\ \A i \in 1..NObs :
             LET o == obs_list[i]
                 on == heap[o.on_vector]
             IN  /\ assigned[i].obs_id # None =>
                       /\ on.obs_id = assigned[i].obs_id
                       /\ obs_obs_id(heap, o) = assigned[i].obs_id
                       /\ o.off_vector # NoRef =>
                             heap[o.off_vector].obs_id = assigned[i].obs_id
                 /\ assigned[i].lo_threshold # None =>
                       /\ on.lo_threshold = assigned[i].lo_threshold
                       /\ obs_lo_threshold(heap, o) = assigned[i].lo_threshold
                       /\ o.off_vector # NoRef =>
                             heap[o.off_vector].lo_threshold = assigned[i].lo_threshold
                 /\ assigned[i].hi_threshold # None =>
                       /\ on.hi_threshold = assigned[i].hi_threshold
                       /\ obs_hi_threshold(heap, o) = assigned[i].hi_threshold
                       /\ o.off_vector # NoRef =>
                             heap[o.off_vector].hi_threshold = assigned[i].hi_threshold

\* the three properties have been assigned through an observation whose off
\* vector was constructed with other values, the lo_threshold last
C15_Witness ==
    /\ assigned # None /\ NObs = 1
    /\ obs_list[1].off_vector # NoRef
    /\ assigned[1] = [obs_id |-> [int |-> 3], lo_threshold |-> <<RecoGrid[1], "TeV">>,
                      hi_threshold |-> <<RecoGrid[3], "TeV">>]
    /\ ret.op = "set_lo_threshold"
    /\ OffVector(1).obs_id = [int |-> 3]
    /\ OffVector(1).lo_threshold = <<RecoGrid[1], "TeV">>
    /\ OffVector(1).hi_threshold = <<RecoGrid[3], "TeV">>
    /\ OffVector(1).backscal # OnVector(1).backscal

AttributesSet == pc \in {"stack_aeff", "stack_edisp", "stack_obs", "done"}

\* ids lists every obs_id of the list, and no id twice
IsUnionOfIds(ids) ==
    /\ \A j \in 1..NObs : \E m \in DOMAIN ids : ids[m] = OnVector(j).obs_id
    /\ \A m \in DOMAIN ids : \E j \in 1..NObs : ids[m] = OnVector(j).obs_id
    /\ \A a, b \in DOMAIN ids : a # b => ids[a] # ids[b]

\* C16: the stacked on vector and off vector carry as obs_id the union of the
\* ids of the observations of the list: every input obs_id appears in it, and
\* an id shared by several observations appears once.
C16_ObsIdUnion ==
    AttributesSet =>
       /\ IsUnionOfIds(heap[stacked_on_vector].obs_id.list)
       /\ IsUnionOfIds(heap[stacked_off_vector].obs_id.list)

\* the positions of the members that carry obs_id
Carriers(obs_id) == {i \in 1..NObs : obs_obs_id(heap, obs_list[i]) = obs_id}

\* C17: obs(obs_id) returns the member at the lowest position whose obs_id
\* equals the argument, also when several members carry that id; when no
\* member carries it, the call raises and returns nothing.
C17_FirstMatch ==
    (ret # None /\ ret.op = "obs") =>
       IF Carriers(ret.args[1]) = {}
       THEN ret.raised = "ValueError" /\ ret.value = None
       ELSE /\ ret.raised = ""
            /\ \E i \in Carriers(ret.args[1]) :
                  /\ \A j \in Carriers(ret.args[1]) : i <= j
                  /\ ret.value = obs_list[i]

\* two members carry the id looked up, and the first one is returned
C17_Witness ==
    /\ ret # None /\ ret.op = "obs"
    /\ NObs = 2
    /\ Carriers(ret.args[1]) = {1, 2}
    /\ obs_list[1] # obs_list[2]
    /\ ret.value = obs_list[1]

\* the position that follows each stage in run() and stack_counts_vectors()
StageAfter ==
    [stack_on_vector |-> "stack_off_vector",
     stack_off_vector |-> "stack_backscal",
     stack_backscal |-> "setup_counts_vectors",
     setup_counts_vectors |-> "stack_aeff",
     stack_aeff |-> "stack_edisp",
     stack_edisp |-> "stack_obs",
     stack_obs |-> "done"]

\* a set stacked_obs is assembled from the four stacked components, all set
Assembled ==
    stacked_obs # None =>
       /\ pc = "done"
       /\ stacked_on_vector # NoRef /\ stacked_off_vector # NoRef
       /\ stacked_aeff # None /\ stacked_edisp # None
       /\ stacked_obs = SpectrumObservation(stacked_on_vector, stacked_aeff,
                                            stacked_off_vector, stacked_edisp)

OrderedStep ==
    /\ pc \in DOMAIN StageAfter
    /\ pc' = StageAfter[pc] \/ pc' = "failed"
    /\ pc = "stack_obs" => pc' = "done"
    /\ stacked_obs' # stacked_obs => pc = "stack_obs" /\ stacked_obs = None
    /\ pc' = "failed" => stacked_obs' = None
    /\ Assembled'

\* C18: run() goes through the stages in the order stack_on_vector,
\* stack_off_vector, stack_backscal, setup_counts_vectors, stack_aeff,
\* stack_edisp, stack_obs; stacked_obs changes from None to a value in the
\* last stage only, so a set stacked_obs has the four stacked components, all
\* set, and after the failure of a stage stacked_obs is None.
C18_StageOrder == [][OrderedStep]_vars

\* a finished run, and the stacked observation it has assembled
C18_Witness ==
    /\ Done /\ NObs = 2
    /\ stacked_obs # None
    /\ stacked_obs.on_vector = stacked_on_vector /\ stacked_on_vector # NoRef
    /\ stacked_obs.off_vector = stacked_off_vector /\ stacked_off_vector # NoRef
    /\ stacked_obs.aeff = stacked_aeff /\ stacked_aeff # None
    /\ stacked_obs.edisp = stacked_edisp /\ stacked_edisp # None

====
